---- MODULE Spec2Model ----
(***************************************************************************)
(* Triage AI: the session state machine and the job registry of the        *)
(* FastAPI application (src/main.py), with the data classes it uses        *)
(* (src/models/schemas.py) and the question catalog (src/chat/questions.py)*)
(*                                                                         *)
(* Text is modelled as a sequence of one-character strings, so that        *)
(* str.strip() is computed and not assumed.  An optional value is <<>>     *)
(* (None) or <<v>>.                                                        *)
(***************************************************************************)
EXTENDS Integers, Sequences, FiniteSets

VARIABLES sessions, job_results, last

vars == <<sessions, job_results, last>>

(***************************************************************************)
(* Bounds of the model.                                                    *)
(***************************************************************************)
MaxSessions == 2
MaxJobs == 2
\* how many answers may be recorded over all sessions
MaxTurns == 15

None == <<>>
Some(v) == <<v>>

(***************************************************************************)
(* Text inputs.                                                            *)
(***************************************************************************)
Whitespace == {" ", "\t", "\n"}

RECURSIVE LStrip(_)
LStrip(t) == IF t # <<>> /\ Head(t) \in Whitespace THEN LStrip(Tail(t)) ELSE t

RECURSIVE RStrip(_)
RStrip(t) ==
    IF t # <<>> /\ t[Len(t)] \in Whitespace
    THEN RStrip(SubSeq(t, 1, Len(t) - 1))
    ELSE t

Strip(t) == RStrip(LStrip(t))

\* What a patient may send: free text (typed with a trailing blank), a
\* language code, nothing.
DefaultMsg == <<"i", "l", "l", " ">>
MsgEn == <<"e", "n">>
MsgEmpty == <<>>
Messages == {DefaultMsg, MsgEn, MsgEmpty}

(***************************************************************************)
(* src/chat/questions.py                                                   *)
(***************************************************************************)
LANGUAGE_OPTIONS ==
    { <<"e", "n">>, <<"e", "s">>, <<"p", "t", "-", "B", "R">>, <<"i", "t">> }

\* The text of a translation is kept as the pair (field, language) it was
\* written for; every catalog entry carries the four translations.
Translations(field) == [l \in LANGUAGE_OPTIONS |-> <<field, l>>]

AnamnesisQuestion(n, field) ==
    [number |-> n, field_name |-> field, translations |-> Translations(field)]

ANAMNESIS_QUESTIONS ==
    << AnamnesisQuestion(1, "patient_name"),
       AnamnesisQuestion(2, "date_of_birth"),
       AnamnesisQuestion(3, "phone_number"),
       AnamnesisQuestion(4, "emergency_contact_name"),
       AnamnesisQuestion(5, "emergency_contact_phone"),
       AnamnesisQuestion(6, "chief_complaint"),
       AnamnesisQuestion(7, "onset"),
       AnamnesisQuestion(8, "pain_scale"),
       AnamnesisQuestion(9, "location"),
       AnamnesisQuestion(10, "radiation"),
       AnamnesisQuestion(11, "associated_symptoms"),
       AnamnesisQuestion(12, "medical_history"),
       AnamnesisQuestion(13, "current_medications"),
       AnamnesisQuestion(14, "allergies") >>

\* AnamnesisQuestion.get_question: translations.get(language,
\* translations.get("en", ""))
EmptyText == <<>>
QuestionGetQuestion(q, language) ==
    IF language \in DOMAIN q.translations THEN q.translations[language]
    ELSE IF MsgEn \in DOMAIN q.translations THEN q.translations[MsgEn]
    ELSE EmptyText

get_question(question_number) ==
    IF 1 <= question_number /\ question_number <= Len(ANAMNESIS_QUESTIONS)
    THEN Some(ANAMNESIS_QUESTIONS[question_number])
    ELSE None

get_question_text(question_number, language) ==
    LET question == get_question(question_number)
    IN  IF question # None
        THEN Some(QuestionGetQuestion(question[1], language))
        ELSE None

get_total_questions == Len(ANAMNESIS_QUESTIONS)

(***************************************************************************)
(* src/models/schemas.py: SessionData                                      *)
(***************************************************************************)
\* The fields SessionData declares.  A pydantic model has no attribute
\* outside its declared fields: reading one raises AttributeError and
\* assigning one raises ValueError.
SessionDataFields ==
    { "session_id", "answers", "current_question", "is_complete",
      "created_at", "anamnesis", "classification", "routing" }

HasField(name) == name \in SessionDataFields

NoAnswers == [k \in {} |-> <<>>]

\* created_at against the cutoff utcnow() - 24 hours of the moment: a
\* session is created after the cutoff and falls before it as time passes.
AfterCutoff == "after the cutoff"
BeforeCutoff == "before the cutoff"

\* A session as SessionData(session_id=...) constructs it.  The record keeps
\* a language slot, None throughout, that can be read or written only if
\* SessionData declares the field.
SessionData(session_id) ==
    [ session_id |-> session_id,
      answers |-> NoAnswers,
      current_question |-> 1,
      is_complete |-> FALSE,
      created_at |-> AfterCutoff,
      language |-> None,
      anamnesis |-> None,
      classification |-> None,
      routing |-> None ]

(***************************************************************************)
(* Responses of the endpoints.                                             *)
(***************************************************************************)
\* Every response is one record: the HTTP status, the error detail or the
\* body's status word, and the body's fields (0 / None where it has none).
HTTPException(status_code, detail) ==
    [ status |-> status_code, detail |-> detail, question_number |-> 0,
      next_question |-> None, is_complete |-> FALSE, job_id |-> 0,
      result |-> None ]

\* An exception no handler catches: the server answers 500.
Unhandled(exc) == HTTPException(500, exc)

ChatResponse(question_number, next_question, is_complete) ==
    [ status |-> 200, detail |-> "", question_number |-> question_number,
      next_question |-> next_question, is_complete |-> is_complete,
      job_id |-> 0, result |-> None ]

ProcessResponse(status, job_id) ==
    [ status |-> 200, detail |-> status, question_number |-> 0,
      next_question |-> None, is_complete |-> FALSE, job_id |-> job_id,
      result |-> None ]

ResultResponse(status, result) ==
    [ status |-> 200, detail |-> status, question_number |-> 0,
      next_question |-> None, is_complete |-> FALSE, job_id |-> 0,
      result |-> result ]

Call(op, id, msg, resp) == [op |-> op, id |-> id, msg |-> msg, resp |-> resp]

(***************************************************************************)
(* Initial state: both registries empty (src/main.py:44-45).               *)
(***************************************************************************)
NoSessions == [k \in {} |-> SessionData(0)]
NoJobs == [k \in {} |-> None]

Init ==
    /\ sessions = NoSessions
    /\ job_results = NoJobs
    /\ last = Call("start", 0, <<>>, HTTPException(0, ""))

\* str(uuid.uuid4()): an id no registry entry has yet.
NewId(registry) == Cardinality(DOMAIN registry) + 1

\* The ids a request may carry: the ones handed out, and one that never was.
UnknownId == 0
SessionIds == DOMAIN sessions \cup {UnknownId}
JobIds == DOMAIN job_results \cup {UnknownId}

Put(registry, key, value) ==
    [k \in DOMAIN registry \cup {key} |->
        IF k = key THEN value ELSE registry[k]]

(***************************************************************************)
(* POST /api/session                                                       *)
(***************************************************************************)
CreateSession ==
    LET session_id == NewId(sessions)
    IN  /\ session_id <= MaxSessions
        /\ sessions' = Put(sessions, session_id, SessionData(session_id))
        /\ last' = Call("create_session", session_id, <<>>,
                        ChatResponse(0, None, FALSE))
        /\ UNCHANGED job_results

(***************************************************************************)
(* POST /api/chat                                                          *)
(***************************************************************************)
\* Variant: sessions.setdefault(session_id, SessionData(...)).
SessionsSetDefault(session_id) ==
    IF session_id \in DOMAIN sessions
    THEN Some(sessions[session_id])
    ELSE Some(SessionData(session_id))

\* Variant: the handler works on the session created last, whatever the id.
SessionsGetLatest(session_id) ==
    IF session_id \in DOMAIN sessions
    THEN Some(sessions[Cardinality(DOMAIN sessions)])
    ELSE None

\* sessions.get(session_id)
SessionsGet(session_id) ==
    IF session_id \in DOMAIN sessions THEN Some(sessions[session_id]) ELSE None

\* Variant: the answer is stored stripped.
StoreAnswerStripped(session, message) ==
    [session EXCEPT !.answers = Put(@, session.current_question, Strip(message))]

\* Variant: the answers are replaced by the new entry alone.
StoreAnswerFresh(session, message) ==
    [session EXCEPT !.answers = Put(NoAnswers, session.current_question, message)]

\* Variant: the answer is stored after the move to the next question.
StoreAnswerAfterIncrement(session, message) ==
    [session EXCEPT !.answers = Put(@, session.current_question + 1, message)]

\* session.answers[session.current_question] = message.message
StoreAnswer(session, message) ==
    [session EXCEPT !.answers = Put(@, session.current_question, message)]

\* Variant: the completeness check is missing.
AlreadyCompleteUnchecked(session) == FALSE

\* if session.is_complete: raise HTTPException(400, ...)
AlreadyComplete(session) == session.is_complete

\* "Handle language selection (question 0)"
LanguageStep == 0

\* The language-selection branch, taken when current_question == 0.
ChatLanguage(session, message) ==
    LET language_code == Strip(message)
    IN  IF language_code \notin LANGUAGE_OPTIONS
        THEN [ session |-> session,
               resp |-> HTTPException(400, "Invalid language selection") ]
        ELSE IF ~HasField("language")
        THEN [ session |-> session, resp |-> Unhandled("ValueError") ]
        ELSE LET s1 == [session EXCEPT !.language = Some(language_code),
                                       !.current_question = 1]
             IN  [ session |-> s1,
                   resp |-> ChatResponse(1,
                                get_question_text(1, language_code), FALSE) ]

\* Variant: the session completes on reaching the last question, >= for >.
ChatQuestionOffByOne(session) ==
    LET s1 == [session EXCEPT !.current_question = @ + 1]
        total_questions == get_total_questions
    IN  IF s1.current_question >= total_questions
        THEN [ session |-> [s1 EXCEPT !.is_complete = TRUE],
               resp |-> ChatResponse(total_questions, None, TRUE) ]
        ELSE [ session |-> s1, resp |-> Unhandled("AttributeError") ]

\* The question branch: move on, complete after the last question, else
\* look up the next question in session.language.
ChatQuestion(session) ==
    LET s1 == [session EXCEPT !.current_question = @ + 1]
        total_questions == get_total_questions
    IN  IF s1.current_question > total_questions
        THEN [ session |-> [s1 EXCEPT !.is_complete = TRUE],
               resp |-> ChatResponse(total_questions, None, TRUE) ]
        ELSE IF ~HasField("language")
        THEN [ session |-> s1, resp |-> Unhandled("AttributeError") ]
        ELSE [ session |-> s1,
               resp |-> ChatResponse(s1.current_question,
                            get_question_text(s1.current_question,
                                IF s1.language = None THEN None
                                ELSE s1.language[1]),
                            FALSE) ]

\* Variant: an empty message is refused before anything is stored.
ChatTurnRejectEmpty(session, message) ==
    IF message = MsgEmpty
    THEN [ session |-> session, resp |-> HTTPException(400, "Empty answer") ]
    ELSE LET s1 == StoreAnswer(session, message)
         IN  IF s1.current_question = LanguageStep
             THEN ChatLanguage(s1, message)
             ELSE ChatQuestion(s1)

\* The handler from the point where the session is known and not complete.
\* The session object is changed in place, so what it has become when an
\* exception leaves the handler is what the registry holds.
ChatTurn(session, message) ==
    LET s1 == StoreAnswer(session, message)
    IN  IF s1.current_question = LanguageStep
        THEN ChatLanguage(s1, message)
        ELSE ChatQuestion(s1)

\* The questions whose answer ranges over all of Messages: the first one a
\* session is asked and the last one; the others are answered DefaultMsg.
VariedQuestions == {1, get_total_questions}

RECURSIVE SumAnswers(_)
SumAnswers(ids) ==
    IF ids = {} THEN 0
    ELSE LET i == CHOOSE x \in ids : TRUE
         IN  Cardinality(DOMAIN sessions[i].answers) + SumAnswers(ids \ {i})

Chat(session_id, message) ==
    LET found == SessionsGet(session_id)
    IN  /\ UNCHANGED job_results
        /\ IF found = None
           THEN /\ last' = Call("chat", session_id, message,
                                HTTPException(404, "Session not found"))
                /\ UNCHANGED sessions
           ELSE LET session == found[1]
                IN  IF AlreadyComplete(session)
                    THEN /\ last' = Call("chat", session_id, message,
                                HTTPException(400, "Session already complete"))
                         /\ UNCHANGED sessions
                    ELSE LET out == ChatTurn(session, message)
                         IN  /\ SumAnswers(DOMAIN sessions) < MaxTurns
                             /\ message # DefaultMsg =>
                                    session.current_question \in VariedQuestions
                             /\ sessions' = Put(sessions, session.session_id,
                                                out.session)
                             /\ last' = Call("chat", session_id, message,
                                             out.resp)

(***************************************************************************)
(* JSON values, as json.loads returns them: a string, an integer, null, a  *)
(* list of strings; an object is a function from its keys to values.       *)
(***************************************************************************)
JStr(s) == <<"str", s>>
JInt(n) == <<"int", n>>
JNull == <<"null">>
JList(l) == <<"list", l>>

\* dict.get(key, default)
Get(data, key, default) == IF key \in DOMAIN data THEN data[key] ELSE default

\* What a call returns: a value, or the exception it raised.
Ok(v) == [error |-> "", value |-> Some(v)]
Err(e) == [error |-> e, value |-> None]

(***************************************************************************)
(* src/models/schemas.py: the data classes.  A pydantic model checks every *)
(* declared field against its type when it is constructed, fills in the    *)
(* defaults of absent fields and ignores keys it does not declare.         *)
(***************************************************************************)
TriageColor == {"RED", "YELLOW", "GREEN", "BLUE"}
Priority == {"EMERGENCY", "URGENT", "STANDARD", "LOW"}
Urgency == {"Immediate", "Within 30 min", "Within 1 hour", "Standard"}

IsStr(v) == v[1] = "str"
IsStrOrNone(v) == v[1] \in {"str", "null"}
IsListOfStr(v) == v[1] = "list"

\* Anamnesis: the fields by the way they are declared.
AnamnesisRequiredStr ==
    {"patient_name", "date_of_birth", "chief_complaint", "onset"}
AnamnesisOptionalStr ==
    {"phone_number", "emergency_contact_name", "emergency_contact_phone",
     "duration", "pain_type", "location", "radiation"}
AnamnesisLists ==
    {"associated_symptoms", "medical_history", "current_medications",
     "allergies"}
AnamnesisFields ==
    AnamnesisRequiredStr \cup AnamnesisOptionalStr \cup AnamnesisLists
        \cup {"pain_scale"}

\* pain_scale: int | None = Field(default=None, ge=1, le=10)
PainScaleGe == 1
PainScaleLe == 10

\* Variant: the lower bound is ge=0.
PainScaleValidFromZero(v) ==
    \/ v = JNull
    \/ v[1] = "int" /\ v[2] >= 0 /\ v[2] <= PainScaleLe

PainScaleValid(v) ==
    \/ v = JNull
    \/ v[1] = "int" /\ v[2] >= PainScaleGe /\ v[2] <= PainScaleLe

AnamnesisDefault(field) ==
    IF field \in AnamnesisLists THEN JList(<<>>) ELSE JNull

AnamnesisFieldValid(data, field) ==
    IF field \in AnamnesisRequiredStr
    THEN field \in DOMAIN data /\ IsStr(data[field])
    ELSE IF field \notin DOMAIN data THEN TRUE
    ELSE IF field \in AnamnesisOptionalStr THEN IsStrOrNone(data[field])
    ELSE IF field \in AnamnesisLists THEN IsListOfStr(data[field])
    ELSE PainScaleValid(data[field])

\* Anamnesis(**data)
Anamnesis(data) ==
    IF \A field \in AnamnesisFields : AnamnesisFieldValid(data, field)
    THEN Ok([field \in AnamnesisFields |->
                IF field \notin DOMAIN data THEN AnamnesisDefault(field)
                ELSE data[field]])
    ELSE Err("ValidationError")

\* TriageClassification(color=..., priority=..., reasoning=..., ...): two
\* independent fields, color and priority, and no validator over the pair.
TriageClassification(color, priority, reasoning, risk_factors, matched_protocols) ==
    IF /\ color \in TriageColor
       /\ priority \in Priority
       /\ IsStr(reasoning)
       /\ IsListOfStr(risk_factors)
       /\ IsListOfStr(matched_protocols)
    THEN Ok([ color |-> color, priority |-> priority,
              reasoning |-> reasoning, risk_factors |-> risk_factors,
              matched_protocols |-> matched_protocols ])
    ELSE Err("ValidationError")

\* Routing(department=..., doctor_type=..., urgency=..., ...)
Routing(department, doctor_type, urgency, room_type, preliminary_orders, contraindications, notes_for_staff) ==
    IF /\ IsStr(department)
       /\ IsStr(doctor_type)
       /\ urgency \in Urgency
       /\ IsStrOrNone(room_type)
       /\ IsListOfStr(preliminary_orders)
       /\ IsListOfStr(contraindications)
       /\ IsStr(notes_for_staff)
    THEN Ok([ department |-> department, doctor_type |-> doctor_type,
              urgency |-> urgency, room_type |-> room_type,
              preliminary_orders |-> preliminary_orders,
              contraindications |-> contraindications,
              notes_for_staff |-> notes_for_staff ])
    ELSE Err("ValidationError")

(***************************************************************************)
(* src/agents: the three agents.  Each sends a prompt to the completion    *)
(* service and reads the text that comes back.  The text is a sequence of  *)
(* lines: a fence marker, a JSON object, or prose.                         *)
(***************************************************************************)
Fence == <<"fence">>
Prose == <<"text">>
Object(data) == <<"object", data>>

\* if response_text.startswith("```"): "\n".join(lines[1:-1])
StripFence(lines) ==
    IF lines # <<>> /\ lines[1] = Fence
    THEN SubSeq(lines, 2, Len(lines) - 1)
    ELSE lines

\* json.loads: the text must be one JSON value and nothing else.
JsonLoads(lines) ==
    IF Len(lines) = 1 /\ lines[1][1] = "object"
    THEN Ok(lines[1][2])
    ELSE Err("JSONDecodeError")

\* The reply of the completion service: None when the call raised, else
\* the text of the first choice.
ResponseData(completion) ==
    IF completion = None THEN Err("APIError")
    ELSE JsonLoads(StripFence(completion[1]))

\* TriageCrew._extract_json, which no stage of the application calls: the
\* first line goes if it is a fence marker, the last line if it is one, and
\* the span from the first '{' to the last '}' is parsed.
StripMarkers(lines) ==
    LET opened == IF lines # <<>> /\ Head(lines) = Fence
                  THEN Tail(lines) ELSE lines
    IN  IF opened # <<>> /\ opened[Len(opened)] = Fence
        THEN SubSeq(opened, 1, Len(opened) - 1)
        ELSE opened

\* The object of the span from the first '{' to the last '}'.
OutermostObject(lines) ==
    LET objects == {i \in 1 .. Len(lines) : lines[i][1] = "object"}
    IN  IF Cardinality(objects) = 1
        THEN Ok(lines[CHOOSE i \in objects : TRUE][2])
        ELSE Err("JSONDecodeError")

_extract_json(lines) == OutermostObject(StripMarkers(lines))

\* AnamnesisAgent.process
AnamnesisAgentProcess(answers, language, completion) ==
    LET parsed == ResponseData(completion)
    IN  IF parsed.error # "" THEN parsed ELSE Anamnesis(parsed.value[1])

COLOR_TO_PRIORITY ==
    [RED |-> "EMERGENCY", YELLOW |-> "URGENT", GREEN |-> "STANDARD",
     BLUE |-> "LOW"]

\* Variant: the priority the completion service suggests is taken when the
\* output carries one.
PriorityOfData(color, data) ==
    IF "priority" \in DOMAIN data /\ IsStr(data["priority"])
                                  /\ data["priority"][2] \in Priority
    THEN data["priority"][2]
    ELSE COLOR_TO_PRIORITY[color]

\* priority=COLOR_TO_PRIORITY[color]
PriorityOfColor(color, data) == COLOR_TO_PRIORITY[color]

\* Variant: a color outside the enumeration is classified GREEN.
TriageColorOrGreen(v) ==
    IF IsStr(v) /\ v[2] \in TriageColor THEN Ok(v[2]) ELSE Ok("GREEN")

\* TriageColor(data["color"]): the member whose value is the string.
TriageColorOf(v) ==
    IF IsStr(v) /\ v[2] \in TriageColor THEN Ok(v[2]) ELSE Err("ValueError")

\* TriageAgent.classify
TriageAgentClassify(anamnesis, completion) ==
    LET parsed == ResponseData(completion)
    IN  IF parsed.error # "" THEN parsed
        ELSE LET data == parsed.value[1]
             IN  IF "color" \notin DOMAIN data THEN Err("KeyError")
                 ELSE LET color == TriageColorOf(data["color"])
                      IN  IF color.error # "" THEN color
                          ELSE IF "reasoning" \notin DOMAIN data
                          THEN Err("KeyError")
                          ELSE TriageClassification(
                                   color.value[1],
                                   PriorityOfColor(color.value[1], data),
                                   data["reasoning"],
                                   Get(data, "risk_factors", JList(<<>>)),
                                   Get(data, "matched_protocols", JList(<<>>)))

COLOR_TO_URGENCY ==
    [RED |-> "Immediate", YELLOW |-> "Within 30 min",
     GREEN |-> "Within 1 hour", BLUE |-> "Standard"]

\* urgency_map: each enumerated string to the member of that value.
urgency_map == [u \in Urgency |-> u]

\* Variant: an unrecognized urgency is passed on as it is, and the data
\* class refuses it.
UrgencyOfDataStrict(v, color) ==
    IF v[1] = "list" THEN Err("TypeError")
    ELSE IF IsStr(v) THEN Ok(v[2])
    ELSE Ok("")

\* Variant: the urgency is always the default of the color.
UrgencyOfDataTable(v, color) ==
    IF v[1] = "list" THEN Err("TypeError")
    ELSE Ok(COLOR_TO_URGENCY[color])

\* urgency_map.get(data["urgency"], COLOR_TO_URGENCY[classification.color])
UrgencyOfData(v, color) ==
    IF v[1] = "list" THEN Err("TypeError")
    ELSE IF IsStr(v) /\ v[2] \in DOMAIN urgency_map THEN Ok(urgency_map[v[2]])
    ELSE Ok(COLOR_TO_URGENCY[color])

\* Variant: the urgency is read with data.get("urgency"), so a missing field
\* falls back to the default of the color.
RoutingAgentRouteGet(anamnesis, classification, completion) ==
    LET parsed == ResponseData(completion)
    IN  IF parsed.error # "" THEN parsed
        ELSE LET data == parsed.value[1]
             IN  IF \/ "department" \notin DOMAIN data
                    \/ "doctor_type" \notin DOMAIN data
                 THEN Err("KeyError")
                 ELSE LET urgency == UrgencyOfData(Get(data, "urgency", JNull),
                                                   classification.color)
                      IN  IF urgency.error # "" THEN urgency
                          ELSE Routing(
                                   data["department"], data["doctor_type"],
                                   urgency.value[1],
                                   Get(data, "room_type", JNull),
                                   Get(data, "preliminary_orders", JList(<<>>)),
                                   Get(data, "contraindications", JList(<<>>)),
                                   Get(data, "notes_for_staff", JStr("")))

\* RoutingAgent.route
RoutingAgentRoute(anamnesis, classification, completion) ==
    LET parsed == ResponseData(completion)
    IN  IF parsed.error # "" THEN parsed
        ELSE LET data == parsed.value[1]
             IN  IF \/ "department" \notin DOMAIN data
                    \/ "doctor_type" \notin DOMAIN data
                    \/ "urgency" \notin DOMAIN data
                 THEN Err("KeyError")
                 ELSE LET urgency == UrgencyOfData(data["urgency"],
                                                   classification.color)
                      IN  IF urgency.error # "" THEN urgency
                          ELSE Routing(
                                   data["department"], data["doctor_type"],
                                   urgency.value[1],
                                   Get(data, "room_type", JNull),
                                   Get(data, "preliminary_orders", JList(<<>>)),
                                   Get(data, "contraindications", JList(<<>>)),
                                   Get(data, "notes_for_staff", JStr("")))

(***************************************************************************)
(* POST /api/process                                                       *)
(***************************************************************************)
\* Replies of the completion service, bare or in a fenced block.
Bare(data) == Some(<<Object(data)>>)
Fenced(data) == Some(<<Fence, Object(data), Fence>>)

AnamnesisReply ==
    [ patient_name |-> JStr("Ann Lee"), date_of_birth |-> JStr("1990-01-01"),
      chief_complaint |-> JStr("chest pain"), onset |-> JStr("2 hours ago"),
      pain_scale |-> JInt(8), allergies |-> JList(<<"aspirin">>) ]

ClassificationReply(color) ==
    [ color |-> JStr(color), reasoning |-> JStr("criteria matched") ]

RoutingReply(urgency) ==
    [ department |-> JStr("Cardiology"), doctor_type |-> JStr("Cardiologist"),
      urgency |-> JStr(urgency) ]

\* What the completion service replies to the three agents in one run.
Outcome(anamnesis, classification, routing) ==
    [ anamnesis |-> anamnesis, classification |-> classification,
      routing |-> routing ]

\* The replies a submit may meet: all three usable, or the first, second or
\* third one not.
PipelineOutcomes ==
    { Outcome(Bare(AnamnesisReply), Fenced(ClassificationReply("RED")),
              Bare(RoutingReply("Immediate"))),
      Outcome(None, Bare(ClassificationReply("RED")),
              Bare(RoutingReply("Immediate"))),
      Outcome(Bare(AnamnesisReply), Bare(ClassificationReply("ORANGE")),
              Bare(RoutingReply("Immediate"))),
      Outcome(Bare(AnamnesisReply), Bare(ClassificationReply("GREEN")),
              Some(<<Prose>>)) }

\* Variant: the result's routing takes its urgency from the table of the
\* classification's color.
TriageResultByTable(session_id, anamnesis, classification, routing) ==
    [ session_id |-> session_id, anamnesis |-> anamnesis,
      classification |-> classification,
      routing |-> [routing EXCEPT
                      !.urgency = COLOR_TO_URGENCY[classification.color]] ]

TriageResult(session_id, anamnesis, classification, routing) ==
    [ session_id |-> session_id, anamnesis |-> anamnesis,
      classification |-> classification, routing |-> routing ]

\* Variant: the except clause stores what the run has got so far.
TryPipelinePartial(session, job_id, outcome) ==
    [ session |-> session,
      result |-> Some(TriageResult(session.session_id, session.anamnesis,
                                   session.classification, session.routing)),
      resp |-> HTTPException(500, "AttributeError") ]

\* The three agent calls of the try block, from the call of the first agent
\* with its arguments evaluated; an exception of a stage leaves through the
\* except clause, which stores None for the job and raises
\* HTTPException(500, str(e)).
TryStages(session, language, job_id, outcome) ==
    LET anamnesis ==
            AnamnesisAgentProcess(session.answers, language, outcome.anamnesis)
    IN  IF anamnesis.error # ""
        THEN [ session |-> session, result |-> None,
               resp |-> HTTPException(500, anamnesis.error) ]
        ELSE
        LET s1 == [session EXCEPT !.anamnesis = anamnesis.value]
            classification ==
                TriageAgentClassify(anamnesis.value[1], outcome.classification)
        IN  IF classification.error # ""
            THEN [ session |-> s1, result |-> None,
                   resp |-> HTTPException(500, classification.error) ]
            ELSE
            LET s2 == [s1 EXCEPT !.classification = classification.value]
                routing == RoutingAgentRoute(anamnesis.value[1],
                               classification.value[1], outcome.routing)
            IN  IF routing.error # ""
                THEN [ session |-> s2, result |-> None,
                       resp |-> HTTPException(500, routing.error) ]
                ELSE [ session |-> [s2 EXCEPT !.routing = routing.value],
                       result |-> Some(TriageResult(
                                     session.session_id, anamnesis.value[1],
                                     classification.value[1],
                                     routing.value[1])),
                       resp |-> ProcessResponse("completed", job_id) ]

\* The body of the try block; session.language is evaluated first, as an
\* argument of the first agent call.
TryPipeline(session, job_id, outcome) ==
    IF ~HasField("language")
    THEN [ session |-> session, result |-> None,
           resp |-> HTTPException(500, "AttributeError") ]
    ELSE TryStages(session, session.language, job_id, outcome)

\* Variant: the completeness check is missing.
NotCompleteUnchecked(session) == FALSE

\* if not session.is_complete: raise HTTPException(400, ...)
NotComplete(session) == ~session.is_complete

\* Variant: the job is named after its session.
JobIdOfSession(session) == session.session_id

\* job_id = str(uuid.uuid4())
NewJobId(session) == NewId(job_results)

ProcessTriage(session_id, outcome) ==
    LET found == SessionsGet(session_id)
    IN  IF found = None
        THEN /\ last' = Call("process_triage", session_id, <<>>,
                             HTTPException(404, "Session not found"))
             /\ UNCHANGED <<sessions, job_results>>
        ELSE IF NotComplete(found[1])
        THEN /\ last' = Call("process_triage", session_id, <<>>,
                             HTTPException(400, "Anamnesis not complete"))
             /\ UNCHANGED <<sessions, job_results>>
        ELSE LET session == found[1]
                 job_id == NewJobId(session)
                 placeholder == Put(job_results, job_id, None)
                 out == TryPipeline(session, job_id, outcome)
             IN  /\ job_id <= MaxJobs
                 /\ job_results' = Put(placeholder, job_id, out.result)
                 /\ sessions' = Put(sessions, session.session_id, out.session)
                 /\ last' = Call("process_triage", session_id, <<>>, out.resp)

(***************************************************************************)
(* GET /api/result/{job_id}                                                *)
(***************************************************************************)
\* Variant: the entry is handed out once, job_results.pop(job_id).
GetResultPop(job_id) ==
    /\ UNCHANGED sessions
    /\ job_results' = [k \in DOMAIN job_results \ {job_id} |-> job_results[k]]
    /\ last' = Call("get_result", job_id, <<>>,
            IF job_id \notin DOMAIN job_results
            THEN HTTPException(404, "Job not found")
            ELSE IF job_results[job_id] = None
            THEN ResultResponse("processing", None)
            ELSE ResultResponse("completed", job_results[job_id]))

\* Variant: a job whose entry is None is taken for a job that is not there,
\* if not job_results.get(job_id).
GetResultNoneMissing(job_id) ==
    /\ UNCHANGED <<sessions, job_results>>
    /\ last' = Call("get_result", job_id, <<>>,
            IF job_id \notin DOMAIN job_results \/ job_results[job_id] = None
            THEN HTTPException(404, "Job not found")
            ELSE ResultResponse("completed", job_results[job_id]))

GetResult(job_id) ==
    /\ UNCHANGED <<sessions, job_results>>
    /\ last' = Call("get_result", job_id, <<>>,
            IF job_id \notin DOMAIN job_results
            THEN HTTPException(404, "Job not found")
            ELSE IF job_results[job_id] = None
            THEN ResultResponse("processing", None)
            ELSE ResultResponse("completed", job_results[job_id]))

Next ==
    \/ CreateSession
    \/ \E session_id \in SessionIds, message \in Messages :
            Chat(session_id, message)
    \/ \E session_id \in SessionIds, outcome \in PipelineOutcomes :
            ProcessTriage(session_id, outcome)
    \/ \E job_id \in JobIds : GetResult(job_id)

Spec == Init /\ [][Next]_vars

(***************************************************************************)
(* The application over days: requests as before, and time passing.        *)
(* cleanup_old_sessions is defined at module level and called by nothing,  *)
(* no handler, no startup code and no timer, so no step applies it.        *)
(***************************************************************************)
\* data.created_at < cutoff
Expired(data) == data.created_at = BeforeCutoff

\* cleanup_old_sessions(): the registry without its expired sessions.
cleanup_old_sessions ==
    [sid \in {k \in DOMAIN sessions : ~Expired(sessions[k])} |-> sessions[sid]]

\* More than 24 hours pass: every session now in the registry was created
\* before the cutoff.
DayPasses ==
    /\ \E sid \in DOMAIN sessions : ~Expired(sessions[sid])
    /\ sessions' = [sid \in DOMAIN sessions |->
                        [sessions[sid] EXCEPT !.created_at = BeforeCutoff]]
    /\ UNCHANGED <<job_results, last>>

NextSweep ==
    \/ Next
    \/ DayPasses

SpecSweep == Init /\ [][NextSweep]_vars /\ WF_vars(DayPasses)

(***************************************************************************)
(* The data classes and the agents on their own: each step constructs a    *)
(* data class from an object, or hands one agent, or the three in a row,   *)
(* a reply of the completion service; last records the call, its input     *)
(* and what it returned.                                                   *)
(***************************************************************************)
Absent == <<"absent">>

\* The object that has the keys of f which carry a value.
MakeObject(f) == [k \in {x \in DOMAIN f : f[x] # Absent} |-> f[k]]

PainScales ==
    {Absent, JNull, JStr("severe")} \cup {JInt(i) : i \in (0 - 1) .. 12 \cup {15}}

AnamnesisObjects ==
    { MakeObject([ patient_name |-> n, date_of_birth |-> d,
                   chief_complaint |-> c, onset |-> o, pain_scale |-> p,
                   allergies |-> a ]) :
        n \in {Absent, JStr("Ann Lee")},
        d \in {Absent, JStr("1990-01-01")},
        c \in {Absent, JNull, JStr(""), JStr("chest pain")},
        o \in {Absent, JStr("2 hours ago")},
        p \in PainScales,
        a \in {Absent, JList(<<>>), JList(<<"aspirin">>)} }

ClassificationObjects ==
    { MakeObject([ color |-> c, priority |-> p, reasoning |-> r,
                   risk_factors |-> k ]) :
        c \in {Absent, JNull}
                \cup {JStr(x) : x \in TriageColor \cup {"red", "ORANGE", ""}},
        p \in {Absent} \cup {JStr(x) : x \in Priority},
        r \in {Absent, JStr("criteria matched")},
        k \in {Absent, JList(<<"age">>)} }

RoutingObjects ==
    { MakeObject([ department |-> d, doctor_type |-> t, urgency |-> u,
                   notes_for_staff |-> s ]) :
        d \in {Absent, JStr("Cardiology")},
        t \in {JStr("Cardiologist")},
        u \in {Absent, JNull}
                \cup {JStr(x) : x \in Urgency \cup {"ASAP", "immediate", ""}},
        s \in {Absent, JStr("allergic to aspirin")} }

\* The ways a reply may carry an object: bare, in a fenced block, in a block
\* whose fence is not closed, with prose around it.
Wrappings(o) ==
    { Bare(o), Fenced(o),
      Some(<<Fence, Object(o)>>),
      Some(<<Fence, Object(o), Prose>>),
      Some(<<Prose, Object(o)>>),
      Some(<<Object(o), Prose>>),
      Some(<<Fence, Prose, Object(o), Fence>>) }

Replies(objects) ==
    {None, Some(<<Prose>>), Some(<<Fence, Prose, Fence>>)}
        \cup UNION {Wrappings(o) : o \in objects}

\* A session that has answered every question, as chat leaves it.
CompleteSession ==
    [ SessionData(1) EXCEPT
        !.answers = [n \in 1 .. get_total_questions |-> DefaultMsg],
        !.current_question = get_total_questions + 1,
        !.is_complete = TRUE ]

\* The classification the second agent returns for a color.
ClassificationOf(color) ==
    TriageAgentClassify(AnamnesisReply, Bare(ClassificationReply(color))).value[1]

StageOutcomes ==
    { Outcome(a, c, r) :
        a \in {None, Bare(AnamnesisReply),
               Bare([AnamnesisReply EXCEPT !.pain_scale = JInt(11)])},
        c \in {None, Some(<<Prose>>)}
                \cup {Fenced(ClassificationReply(x)) :
                        x \in TriageColor \cup {"ORANGE", "red"}},
        r \in {None, Bare(RoutingReply("Standard")), Bare(RoutingReply("ASAP")),
               Bare(MakeObject([RoutingReply("") EXCEPT !.urgency = Absent]))} }

\* The calls a run may make: the callee and its argument.
AgentInputs ==
    {<<"Anamnesis", data>> : data \in AnamnesisObjects}
        \cup {<<"TriageClassification", pair>> : pair \in TriageColor \X Priority}
        \cup {<<"classify", completion>> :
                completion \in Replies(ClassificationObjects)}
        \cup {<<"route", arg>> :
                arg \in TriageColor \X Replies(RoutingObjects)}
        \cup {<<"stages", outcome>> : outcome \in StageOutcomes}
        \cup {<<"_extract_json", completion>> :
                completion \in Replies(ClassificationObjects) \ {None}}

InitAgents ==
    /\ sessions = NoSessions
    /\ job_results = NoJobs
    /\ \E input \in AgentInputs : last = Call("input", 0, input, Err(""))

\* The argument of the call to callee that has been drawn and not yet made.
Drawn(callee) == last.op = "input" /\ last.msg[1] = callee

NewAnamnesis ==
    /\ Drawn("Anamnesis")
    /\ LET data == last.msg[2]
       IN  last' = Call("Anamnesis", 0, data, Anamnesis(data))
    /\ UNCHANGED <<sessions, job_results>>

NewTriageClassification ==
    /\ Drawn("TriageClassification")
    /\ LET color == last.msg[2][1]
           priority == last.msg[2][2]
       IN  last' = Call("TriageClassification", 0, <<color, priority>>,
                        TriageClassification(color, priority, JStr("test"),
                                             JList(<<>>), JList(<<>>)))
    /\ UNCHANGED <<sessions, job_results>>

Classify ==
    /\ Drawn("classify")
    /\ LET completion == last.msg[2]
       IN  last' = Call("classify", 0, completion,
                        TriageAgentClassify(AnamnesisReply, completion))
    /\ UNCHANGED <<sessions, job_results>>

Route ==
    /\ Drawn("route")
    /\ LET color == last.msg[2][1]
           completion == last.msg[2][2]
       IN  last' = Call("route", 0, <<color, completion>>,
                        RoutingAgentRoute(AnamnesisReply,
                                          ClassificationOf(color), completion))
    /\ UNCHANGED <<sessions, job_results>>

Stages ==
    /\ Drawn("stages")
    /\ LET outcome == last.msg[2]
       IN  last' = Call("stages", 1, outcome,
                        TryStages(CompleteSession, MsgEn, 1, outcome))
    /\ UNCHANGED <<sessions, job_results>>

ExtractJson ==
    /\ Drawn("_extract_json")
    /\ LET completion == last.msg[2]
       IN  last' = Call("_extract_json", 0, completion,
                        _extract_json(completion[1]))
    /\ UNCHANGED <<sessions, job_results>>

NextAgents ==
    \/ NewAnamnesis
    \/ NewTriageClassification
    \/ Classify
    \/ Route
    \/ Stages
    \/ ExtractJson

SpecAgents == InitAgents /\ [][NextAgents]_vars

(***************************************************************************)
(* The states of the session state machine, and the errors, as the         *)
(* specification names them.                                               *)
(***************************************************************************)
\* No language has been selected yet.
AwaitingLanguage(session) ==
    ~session.is_complete /\ session.language = None

\* The session waits for the answer to question n.
AwaitingQuestion(session, n) ==
    /\ ~session.is_complete
    /\ n \in 1 .. get_total_questions
    /\ session.current_question = n

InvalidInput(resp) == resp.status = 400 /\ resp.detail # "Session already complete"
SessionNotFound(resp) == resp.status = 404 /\ resp.detail = "Session not found"
SessionAlreadyComplete(resp) ==
    resp.status = 400 /\ resp.detail = "Session already complete"

\* The step is a chat call on a session the registry holds.
ChatOn(session_id) ==
    /\ last'.op = "chat"
    /\ last'.id = session_id
    /\ session_id \in DOMAIN sessions
    /\ session_id \in DOMAIN sessions'

QuestionTexts(n) ==
    { ANAMNESIS_QUESTIONS[n].translations[l] :
        l \in DOMAIN ANAMNESIS_QUESTIONS[n].translations }

(***************************************************************************)
(* C1: a session returned by create-session has no language, no answers,   *)
(* is not complete and stands at the language-selection step, not at       *)
(* question 1.                                                             *)
(***************************************************************************)
C1_CreatedAwaitingLanguage ==
    last.op = "create_session" =>
        LET session == sessions[last.id]
        IN  /\ session.language = None
            /\ DOMAIN session.answers = {}
            /\ ~session.is_complete
            /\ session.current_question = LanguageStep

(***************************************************************************)
(* C2: an advance call with an invalid language code on a session that     *)
(* awaits its language fails with InvalidInput and leaves the session      *)
(* registry as it was.                                                     *)
(***************************************************************************)
C2_InvalidLanguageRejected ==
    [][\A sid \in DOMAIN sessions :
          ( /\ ChatOn(sid)
            /\ AwaitingLanguage(sessions[sid])
            /\ Strip(last'.msg) \notin LANGUAGE_OPTIONS )
          => (InvalidInput(last'.resp) /\ sessions' = sessions)]_vars

(***************************************************************************)
(* C3: an advance call with an enumerated language code on a session that  *)
(* awaits its language stores the code, moves to question 1 and returns    *)
(* the text of question 1 in that language with is_complete false.         *)
(***************************************************************************)
C3_ValidLanguageStored ==
    [][\A sid \in DOMAIN sessions :
          ( /\ ChatOn(sid)
            /\ AwaitingLanguage(sessions[sid])
            /\ last'.msg \in LANGUAGE_OPTIONS )
          => ( /\ sessions'[sid].language = Some(last'.msg)
               /\ sessions'[sid].current_question = 1
               /\ ~sessions'[sid].is_complete
               /\ last'.resp =
                    ChatResponse(1, get_question_text(1, last'.msg), FALSE) )]_vars

(***************************************************************************)
(* C4: a successful advance call increases current_question by exactly 1,  *)
(* a failing call does not change it, and it never decreases.              *)
(***************************************************************************)
C4_OneStepPerValidCall ==
    [][\A sid \in DOMAIN sessions :
          /\ sid \in DOMAIN sessions'
          /\ sessions'[sid].current_question >= sessions[sid].current_question
          /\ (ChatOn(sid) /\ last'.resp.status = 200) =>
                sessions'[sid].current_question =
                    sessions[sid].current_question + 1
          /\ (last'.op = "chat" /\ last'.resp.status # 200) =>
                sessions'[sid].current_question =
                    sessions[sid].current_question]_vars

(***************************************************************************)
(* C5: an advance call on a session awaiting question n records exactly    *)
(* the input text under key n and leaves every other entry of the answers  *)
(* as it was.                                                              *)
(***************************************************************************)
C5_AnswerRecordedVerbatim ==
    [][\A sid \in DOMAIN sessions :
       LET n == sessions[sid].current_question IN
          (ChatOn(sid) /\ AwaitingQuestion(sessions[sid], n))
          => LET before == sessions[sid].answers
                 after == sessions'[sid].answers
             IN  /\ DOMAIN after = DOMAIN before \cup {n}
                 /\ after[n] = last'.msg
                 /\ \A k \in DOMAIN before \ {n} : after[k] = before[k]]_vars

\* A padded text has been recorded as typed, after an earlier answer that
\* differs from it and is still there.
C5_Witness ==
    /\ last.op = "chat"
    /\ last.id \in DOMAIN sessions
    /\ last.msg = DefaultMsg
    /\ Strip(last.msg) # last.msg
    /\ LET session == sessions[last.id]
           n == session.current_question - 1
       IN  /\ n >= 2
           /\ n \in DOMAIN session.answers
           /\ session.answers[n] = last.msg
           /\ \E k \in 1 .. n - 1 : session.answers[k] = MsgEmpty

(***************************************************************************)
(* C6: on the last question the advance call records the input, completes  *)
(* the session and returns is_complete true with no next question; on any  *)
(* earlier question n it returns is_complete false with the text of        *)
(* question n+1.                                                           *)
(***************************************************************************)
C6_LastQuestionCompletes ==
    [][\A sid \in DOMAIN sessions :
       LET n == sessions[sid].current_question IN
          (ChatOn(sid) /\ AwaitingQuestion(sessions[sid], n))
          => IF n = get_total_questions
             THEN /\ n \in DOMAIN sessions'[sid].answers
                  /\ sessions'[sid].answers[n] = last'.msg
                  /\ sessions'[sid].is_complete
                  /\ last'.resp.status = 200
                  /\ last'.resp.is_complete
                  /\ last'.resp.next_question = None
             ELSE /\ last'.resp.status = 200
                  /\ ~last'.resp.is_complete
                  /\ last'.resp.next_question # None
                  /\ last'.resp.next_question[1] \in QuestionTexts(n + 1)]_vars

(***************************************************************************)
(* C7: once a session is complete, every advance call on it is rejected    *)
(* with SessionAlreadyComplete, and no step changes its answers,           *)
(* current_question, language or is_complete, or removes it.               *)
(***************************************************************************)
C7_CompleteIsFinal ==
    [][\A sid \in DOMAIN sessions :
          sessions[sid].is_complete
          => /\ sid \in DOMAIN sessions'
             /\ sessions'[sid].is_complete
             /\ sessions'[sid].answers = sessions[sid].answers
             /\ sessions'[sid].current_question = sessions[sid].current_question
             /\ sessions'[sid].language = sessions[sid].language
             /\ (last'.op = "chat" /\ last'.id = sid)
                    => SessionAlreadyComplete(last'.resp)]_vars

\* An advance call has been made on a complete session.
C7_Witness ==
    /\ last.op = "chat"
    /\ last.id \in DOMAIN sessions
    /\ sessions[last.id].is_complete
    /\ DOMAIN sessions[last.id].answers = 1 .. get_total_questions
    /\ SessionAlreadyComplete(last.resp)

(***************************************************************************)
(* C8: an advance call with a session id the registry does not hold fails  *)
(* with SessionNotFound and changes neither registry.                      *)
(***************************************************************************)
C8_UnknownSessionNotFound ==
    [][(last'.op = "chat" /\ last'.id \notin DOMAIN sessions)
          => /\ SessionNotFound(last'.resp)
             /\ sessions' = sessions
             /\ job_results' = job_results]_vars

\* An advance call with an unknown id has been made while a session and a
\* job exist.
C8_Witness ==
    /\ last.op = "chat"
    /\ last.id \notin DOMAIN sessions
    /\ SessionNotFound(last.resp)
    /\ DOMAIN sessions # {}
    /\ DOMAIN job_results # {}

(***************************************************************************)
(* C9: an advance call with an empty text on a session awaiting question n *)
(* is rejected with InvalidInput and changes nothing.                      *)
(***************************************************************************)
C9_EmptyAnswerRejected ==
    [][\A sid \in DOMAIN sessions :
       LET n == sessions[sid].current_question IN
          ( /\ ChatOn(sid)
            /\ AwaitingQuestion(sessions[sid], n)
            /\ last'.msg = MsgEmpty )
          => (InvalidInput(last'.resp) /\ sessions' = sessions)]_vars

(***************************************************************************)
(* C9, amended: an advance call with an empty text on a session awaiting   *)
(* question n is not rejected with InvalidInput; the empty text is         *)
(* recorded under n and current_question becomes n+1.                      *)
(***************************************************************************)
C9_EmptyAnswerRecorded ==
    [][\A sid \in DOMAIN sessions :
       LET n == sessions[sid].current_question IN
          ( /\ ChatOn(sid)
            /\ AwaitingQuestion(sessions[sid], n)
            /\ last'.msg = MsgEmpty )
          => /\ ~InvalidInput(last'.resp)
             /\ n \in DOMAIN sessions'[sid].answers
             /\ sessions'[sid].answers[n] = MsgEmpty
             /\ sessions'[sid].current_question = n + 1]_vars

\* An empty text has been sent to a session and stands among its answers.
C9_Witness ==
    /\ last.op = "chat"
    /\ last.id \in DOMAIN sessions
    /\ last.msg = MsgEmpty
    /\ LET session == sessions[last.id]
           n == session.current_question - 1
       IN  /\ n \in DOMAIN session.answers
           /\ session.answers[n] = MsgEmpty
           /\ ~InvalidInput(last.resp)

(***************************************************************************)
(* C10: the first advance call on a freshly created session, carrying free *)
(* text that is no language code, succeeds and returns question_number 2   *)
(* with is_complete false.                                                 *)
(***************************************************************************)
C10_FirstMessageAnswersQuestionOne ==
    [][\A sid \in DOMAIN sessions :
          ( /\ ChatOn(sid)
            /\ sessions[sid] = SessionData(sid)
            /\ Strip(last'.msg) \notin LANGUAGE_OPTIONS )
          => /\ last'.resp.status = 200
             /\ last'.resp.question_number = 2
             /\ ~last'.resp.is_complete]_vars

(***************************************************************************)
(* C11: submit creates a job only for a session that exists and is         *)
(* complete; for an unknown id it fails with SessionNotFound and for an    *)
(* incomplete session with SessionIncomplete, and then both registries     *)
(* stay as they were.                                                      *)
(***************************************************************************)
SessionIncomplete(resp) ==
    resp.status = 400 /\ resp.detail = "Anamnesis not complete"

C11_SubmitOnlyWhenComplete ==
    [][/\ job_results' # job_results =>
            /\ last'.op = "process_triage"
            /\ last'.id \in DOMAIN sessions
            /\ sessions[last'.id].is_complete
       /\ (last'.op = "process_triage" /\ last'.id \notin DOMAIN sessions) =>
            /\ SessionNotFound(last'.resp)
            /\ sessions' = sessions
            /\ job_results' = job_results
       /\ ( /\ last'.op = "process_triage"
            /\ last'.id \in DOMAIN sessions
            /\ ~sessions[last'.id].is_complete ) =>
            /\ SessionIncomplete(last'.resp)
            /\ sessions' = sessions
            /\ job_results' = job_results]_vars

\* A submit has been refused for a session that has answers but is not
\* complete, while another submit had already created a job.
C11_Witness ==
    /\ last.op = "process_triage"
    /\ last.id \in DOMAIN sessions
    /\ ~sessions[last.id].is_complete
    /\ DOMAIN sessions[last.id].answers # {}
    /\ SessionIncomplete(last.resp)
    /\ DOMAIN job_results # {}

(***************************************************************************)
(* C13: the job of a run that failed is reported as failed by every later  *)
(* poll, never as pending or processing.                                   *)
(***************************************************************************)
\* The entry the except clause leaves for a run that raised.  A handler runs
\* to its end before another one starts, so no other handler sees the
\* placeholder of a run that is still going.
RunFailed(job_id) ==
    job_id \in DOMAIN job_results /\ job_results[job_id] = None

C13_FailedJobPollsFailed ==
    (last.op = "get_result" /\ RunFailed(last.id))
        => (last.resp.detail = "error" /\ last.resp.result = None)

(***************************************************************************)
(* C14: every submit that passes the checks, a resubmit of the same        *)
(* session included, adds exactly one job under an id no job had, and no   *)
(* step changes or removes a job that exists.                              *)
(***************************************************************************)
C14_JobIdsNeverReused ==
    [][/\ ( /\ last'.op = "process_triage"
            /\ last'.id \in DOMAIN sessions
            /\ sessions[last'.id].is_complete )
          => \E j \in DOMAIN job_results' :
                /\ j \notin DOMAIN job_results
                /\ DOMAIN job_results' = DOMAIN job_results \cup {j}
       /\ \A j \in DOMAIN job_results :
            /\ j \in DOMAIN job_results'
            /\ job_results'[j] = job_results[j]]_vars

\* The one complete session has been submitted a second time: two jobs.
C14_Witness ==
    /\ last.op = "process_triage"
    /\ last.id \in DOMAIN sessions
    /\ sessions[last.id].is_complete
    /\ Cardinality(DOMAIN job_results) = 2
    /\ Cardinality({sid \in DOMAIN sessions : sessions[sid].is_complete}) = 1

(***************************************************************************)
(* C15: poll changes neither registry; what it returns for a job is        *)
(* determined by the job's entry, and the entry of a completed job never   *)
(* changes, so two polls of a completed job return the same.               *)
(***************************************************************************)
C15_PollIsPure ==
    [][/\ last'.op = "get_result" =>
            /\ sessions' = sessions
            /\ job_results' = job_results
            /\ last'.id \in DOMAIN job_results =>
                  last'.resp =
                    IF job_results[last'.id] = None
                    THEN ResultResponse("processing", None)
                    ELSE ResultResponse("completed", job_results[last'.id])
       /\ \A j \in DOMAIN job_results :
            job_results[j] # None =>
                (j \in DOMAIN job_results' /\ job_results'[j] = job_results[j])]_vars

\* A job that exists has been polled, and is still there.
C15_Witness ==
    /\ last.op = "get_result"
    /\ last.id \in DOMAIN job_results
    /\ last.resp.status = 200
    /\ Cardinality(DOMAIN job_results) = 2
    /\ DOMAIN sessions # {}

(***************************************************************************)
(* C16: a job gets a result only in the step of a submit that answers 200, *)
(* whose session then carries the record, the classification and the       *)
(* routing of the run; the job of a submit that fails holds no result.     *)
(***************************************************************************)
C16_ResultAllOrNothing ==
    [][\A j \in DOMAIN job_results' :
          job_results'[j] # None =>
            \/ (j \in DOMAIN job_results /\ job_results[j] = job_results'[j])
            \/ /\ last'.op = "process_triage"
               /\ last'.resp.status = 200
               /\ last'.resp.job_id = j
               /\ last'.id \in DOMAIN sessions'
               /\ sessions'[last'.id].anamnesis # None
               /\ sessions'[last'.id].classification # None
               /\ sessions'[last'.id].routing # None]_vars

\* A submit has failed and the job it created holds no result.
C16_Witness ==
    /\ last.op = "process_triage"
    /\ last.resp.status = 500
    /\ DOMAIN job_results # {}
    /\ \A j \in DOMAIN job_results : job_results[j] = None

(***************************************************************************)
(* C21: two advance calls on one session, one right after the other, the   *)
(* first issued while the session awaits question n with n+1 <= N, leave   *)
(* current_question at n+2 and the two inputs recorded under n and n+1.    *)
(* A chat handler contains no await, so on the event loop two concurrent   *)
(* calls run one after the other, in either order.                         *)
(***************************************************************************)
C21_TwoAdvancesSerialized ==
    [][\A sid \in DOMAIN sessions :
       LET n == sessions[sid].current_question - 1 IN
          ( /\ ChatOn(sid)
            /\ last.op = "chat"
            /\ last.id = sid
            /\ n >= 1
            /\ AwaitingQuestion(sessions[sid], n + 1) )
          => /\ sessions'[sid].current_question = n + 2
             /\ DOMAIN sessions'[sid].answers = 1 .. (n + 1)
             /\ sessions'[sid].answers[n] = last.msg
             /\ sessions'[sid].answers[n + 1] = last'.msg]_vars

\* Two different inputs stand under two consecutive questions of the session
\* of the last advance call, the later one being that call's input.
C21_Witness ==
    /\ last.op = "chat"
    /\ last.id \in DOMAIN sessions
    /\ LET session == sessions[last.id]
           n == session.current_question - 2
       IN  /\ n >= 1
           /\ ~session.is_complete
           /\ DOMAIN session.answers = 1 .. (n + 1)
           /\ session.answers[n + 1] = last.msg
           /\ session.answers[n] # last.msg

(***************************************************************************)
(* C22: an advance or a submit on one session changes no other session:    *)
(* its language, current_question, answers, is_complete and attached stage *)
(* outputs stay as they were, and it stays in the registry.                *)
(***************************************************************************)
C22_SessionsIsolated ==
    [][\A b \in DOMAIN sessions :
          (last'.op \in {"chat", "process_triage"} /\ last'.id # b)
          => (b \in DOMAIN sessions' /\ sessions'[b] = sessions[b])]_vars

\* An advance call has changed one session while another one, at a different
\* question, holds answers of its own.
C22_Witness ==
    /\ last.op = "chat"
    /\ last.id \in DOMAIN sessions
    /\ last.resp.status \notin {400, 404}
    /\ \E b \in DOMAIN sessions \ {last.id} :
          /\ DOMAIN sessions[b].answers # {}
          /\ sessions[b].current_question # sessions[last.id].current_question

(***************************************************************************)
(* C23: every classification the classification stage produces has the     *)
(* priority the fixed table gives for its color (RED EMERGENCY, YELLOW     *)
(* URGENT, GREEN STANDARD, BLUE LOW), whatever priority the completion     *)
(* output carries, and its color is the color of the output.               *)
(***************************************************************************)
PriorityTable(color) ==
    CASE color = "RED" -> "EMERGENCY"
      [] color = "YELLOW" -> "URGENT"
      [] color = "GREEN" -> "STANDARD"
      [] color = "BLUE" -> "LOW"

C23_PriorityFromColor ==
    /\ (last.op = "classify" /\ last.resp.error = "")
        => LET classification == last.resp.value[1]
               data == ResponseData(last.msg).value[1]
           IN  /\ JStr(classification.color) = data["color"]
               /\ classification.priority = PriorityTable(classification.color)
    /\ (last.op = "stages" /\ last.resp.session.classification # None)
        => LET classification == last.resp.session.classification[1]
           IN  classification.priority = PriorityTable(classification.color)

\* The output said RED with priority LOW, and the classification is RED
\* with priority EMERGENCY.
C23_Witness ==
    /\ last.op = "classify"
    /\ last.resp.error = ""
    /\ LET data == ResponseData(last.msg).value[1]
       IN  /\ "priority" \in DOMAIN data
           /\ data["priority"] = JStr("LOW")
           /\ data["color"] = JStr("RED")
    /\ last.resp.value[1].priority = "EMERGENCY"

(***************************************************************************)
(* C24: constructing a classification from a color and a priority that     *)
(* disagree with the table is rejected, or the priority is recomputed from *)
(* the color: no classification holds an inconsistent pair.                *)
(***************************************************************************)
C24_NoInconsistentPair ==
    last.op = "TriageClassification"
        => \/ last.resp.error # ""
           \/ last.resp.value[1].priority
                = PriorityTable(last.resp.value[1].color)

(***************************************************************************)
(* C25: when the color of the completion output is not exactly one of RED, *)
(* YELLOW, GREEN, BLUE, the classification stage raises and returns no     *)
(* classification; in the run of the three stages no classification and no *)
(* routing is attached to the session, the job gets no result and the      *)
(* submit answers 500.                                                     *)
(***************************************************************************)
\* The reply parses to an object whose color is none of the four.
BadColor(completion) ==
    LET parsed == ResponseData(completion)
    IN  /\ parsed.error = ""
        /\ "color" \in DOMAIN parsed.value[1]
        /\ parsed.value[1]["color"] \notin {JStr(c) : c \in TriageColor}

C25_BadColorFailsStage ==
    /\ (last.op = "classify" /\ BadColor(last.msg))
        => (last.resp.error # "" /\ last.resp.value = None)
    /\ ( /\ last.op = "stages"
         /\ last.resp.session.anamnesis # None
         /\ BadColor(last.msg.classification) )
        => /\ last.resp.session.classification = None
           /\ last.resp.session.routing = None
           /\ last.resp.result = None
           /\ last.resp.resp.status = 500

\* The three stages have run on a record that was extracted, a color in
\* lower case and a routing reply that would have been usable.
C25_Witness ==
    /\ last.op = "stages"
    /\ last.resp.session.anamnesis # None
    /\ BadColor(last.msg.classification)
    /\ ResponseData(last.msg.classification).value[1]["color"] = JStr("red")
    /\ last.msg.routing = Bare(RoutingReply("Standard"))
    /\ last.resp.result = None

(***************************************************************************)
(* C26: a patient record whose other fields are valid is accepted exactly  *)
(* when pain_scale is absent, null or an integer in 1..10, and then the    *)
(* record holds the value as given (null when absent): 0, 11 and 15 are    *)
(* rejected, not clamped.                                                  *)
(***************************************************************************)
Without(data, key) == [k \in DOMAIN data \ {key} |-> data[k]]

C27_EmptyComplaintRejected ==
    /\ last.op = "Anamnesis"
        => \/ last.resp.error # ""
           \/ last.resp.value[1]["chief_complaint"] # JStr("")
    /\ (last.op = "stages" /\ last.resp.session.anamnesis # None)
        => last.resp.session.anamnesis[1]["chief_complaint"] # JStr("")

(***************************************************************************)
(* C28: a patient record given chief_complaint and onset alone is          *)
(* accepted, its pain_scale unset and its allergies empty.                 *)
(***************************************************************************)
C28_MinimalRecordAccepted ==
    ( /\ last.op = "Anamnesis"
      /\ DOMAIN last.msg = {"chief_complaint", "onset"}
      /\ IsStr(last.msg["chief_complaint"])
      /\ IsStr(last.msg["onset"]) )
    => /\ last.resp.error = ""
       /\ last.resp.value[1]["pain_scale"] = JNull
       /\ last.resp.value[1]["allergies"] = JList(<<>>)

(***************************************************************************)
(* C29: when the routing output carries an urgency string that is none of  *)
(* the four enumerated ones, and its required fields, the routing stage    *)
(* succeeds and the urgency is the default of the classification's color:  *)
(* RED Immediate, YELLOW Within 30 min, GREEN Within 1 hour, BLUE          *)
(* Standard.                                                               *)
(***************************************************************************)
UrgencyTable(color) ==
    CASE color = "RED" -> "Immediate"
      [] color = "YELLOW" -> "Within 30 min"
      [] color = "GREEN" -> "Within 1 hour"
      [] color = "BLUE" -> "Standard"

\* The reply parses to an object with department, doctor_type and an
\* urgency string outside the enumeration.
UnknownUrgency(completion) ==
    LET parsed == ResponseData(completion)
    IN  /\ parsed.error = ""
        /\ {"department", "doctor_type", "urgency"} \subseteq DOMAIN parsed.value[1]
        /\ IsStr(parsed.value[1]["urgency"])
        /\ parsed.value[1]["urgency"][2] \notin Urgency

C29_UrgencyFallback ==
    /\ (last.op = "route" /\ UnknownUrgency(last.msg[2]))
        => /\ last.resp.error = ""
           /\ last.resp.value[1].urgency = UrgencyTable(last.msg[1])
    /\ ( /\ last.op = "stages"
         /\ last.resp.session.classification # None
         /\ UnknownUrgency(last.msg.routing) )
        => /\ last.resp.session.routing # None
           /\ last.resp.session.routing[1].urgency
                = UrgencyTable(last.resp.session.classification[1].color)

\* A routing reply with urgency ASAP for a YELLOW classification has been
\* routed with urgency Within 30 min.
C29_Witness ==
    /\ last.op = "route"
    /\ last.msg[1] = "YELLOW"
    /\ UnknownUrgency(last.msg[2])
    /\ ResponseData(last.msg[2]).value[1]["urgency"] = JStr("ASAP")
    /\ last.resp.error = ""
    /\ last.resp.value[1].urgency = "Within 30 min"

(***************************************************************************)
(* C30: for every language code and every question number 1..N the catalog *)
(* lookup returns a non-empty text, and an advance call that leaves the    *)
(* session waiting for a next question returns that question's text,       *)
(* neither empty nor undefined.                                            *)
(***************************************************************************)
C30_QuestionTextDefined ==
    /\ \A language \in LANGUAGE_OPTIONS, n \in 1 .. get_total_questions :
          /\ get_question_text(n, language) # None
          /\ get_question_text(n, language)[1] # EmptyText
    /\ ( /\ last.op = "chat"
         /\ last.id \in DOMAIN sessions
         /\ ~sessions[last.id].is_complete )
        => /\ last.resp.next_question # None
           /\ last.resp.next_question[1] # EmptyText

(***************************************************************************)
(* C31: the catalog has exactly 9 questions: a session is complete exactly *)
(* when 9 answers have been recorded for it.                               *)
(***************************************************************************)
C31_NineQuestions ==
    \A sid \in DOMAIN sessions :
        sessions[sid].is_complete
            <=> Cardinality(DOMAIN sessions[sid].answers) = 9

(***************************************************************************)
(* C32: a poll with a job id the job registry does not hold fails with     *)
(* JobNotFound and changes neither registry; a poll with a job id the      *)
(* registry holds, each put there by a submit, never fails with            *)
(* JobNotFound.                                                            *)
(***************************************************************************)
JobNotFound(resp) == resp.status = 404 /\ resp.detail = "Job not found"

C32_UnknownJobNotFound ==
    [][last'.op = "get_result" =>
          IF last'.id \in DOMAIN job_results
          THEN ~JobNotFound(last'.resp) /\ last'.resp.status = 200
          ELSE /\ JobNotFound(last'.resp)
               /\ sessions' = sessions
               /\ job_results' = job_results]_vars

\* A poll with an id no job has was refused while the registry holds the
\* job of a submit.
C32_Witness ==
    /\ last.op = "get_result"
    /\ last.id \notin DOMAIN job_results
    /\ JobNotFound(last.resp)
    /\ DOMAIN job_results # {}

(***************************************************************************)
(* C36: in every session current_question is at most N+1, N the size of    *)
(* the catalog, and is_complete is true exactly when it is N+1.            *)
(***************************************************************************)
C36_CompleteIffPastLast ==
    \A sid \in DOMAIN sessions :
        /\ sessions[sid].current_question <= get_total_questions + 1
        /\ sessions[sid].is_complete
            <=> sessions[sid].current_question = get_total_questions + 1

\* One session is complete and stands past the last question while another
\* one, with an answer recorded, is not complete.
C36_Witness ==
    \E a, b \in DOMAIN sessions :
        /\ sessions[a].is_complete
        /\ sessions[a].current_question = get_total_questions + 1
        /\ ~sessions[b].is_complete
        /\ sessions[b].current_question = 2

(***************************************************************************)
(* C37: a complete session has an answer for every question 1..N, so the   *)
(* prompt of the extraction stage carries the session's answer for every   *)
(* catalog question and never its "Not provided" placeholder.              *)
(***************************************************************************)
NotProvided == <<"N", "o", "t", " ", "p", "r", "o", "v", "i", "d", "e", "d">>

\* answers.get(q.number, "Not provided")
PromptAnswer(answers, number) ==
    IF number \in DOMAIN answers THEN answers[number] ELSE NotProvided

C37_CompleteHasAllAnswers ==
    \A sid \in DOMAIN sessions :
        sessions[sid].is_complete
        => \A n \in 1 .. get_total_questions :
              /\ n \in DOMAIN sessions[sid].answers
              /\ PromptAnswer(sessions[sid].answers, ANAMNESIS_QUESTIONS[n].number)
                    # NotProvided

\* A complete session has been submitted; its first answer is the empty
\* text, which the prompt carries as it is.
C37_Witness ==
    /\ last.op = "process_triage"
    /\ last.id \in DOMAIN sessions
    /\ sessions[last.id].is_complete
    /\ DOMAIN sessions[last.id].answers = 1 .. get_total_questions
    /\ PromptAnswer(sessions[last.id].answers, 1) = MsgEmpty

(***************************************************************************)
(* C33: fence stripping removes the first line of a reply only if it is a  *)
(* fence marker and the last line only if it is a fence marker; what a     *)
(* stage then parses is the reply without those markers, so the stage      *)
(* fails to parse exactly when that text does not parse.                   *)
(***************************************************************************)
\* The reply the agent of the last call was given.
ReplyOfCall == IF last.op = "classify" THEN last.msg ELSE last.msg[2]

C33_OnlyFenceMarkersStripped ==
    (last.op \in {"classify", "route"} /\ ReplyOfCall # None)
    => ( last.resp.error = "JSONDecodeError"
            <=> JsonLoads(StripMarkers(ReplyOfCall[1])).error # "" )

(***************************************************************************)
(* C34: after fence stripping a stage parses the span from the first '{'   *)
(* to the last '}': a reply with prose before or after one well-formed     *)
(* object is parsed, and a reply with no object is a parse error.          *)
(***************************************************************************)
C34_OutermostObjectParsed ==
    (last.op \in {"classify", "route"} /\ ReplyOfCall # None)
    => ( last.resp.error = "JSONDecodeError"
            <=> OutermostObject(StripFence(ReplyOfCall[1])).error # "" )

(***************************************************************************)
(* C39: when the routing output's urgency is one of the four enumerated    *)
(* strings, and its required fields are there, the routing decision        *)
(* carries exactly that urgency, even where the table of the color gives   *)
(* another one (color RED with urgency Standard).                          *)
(***************************************************************************)
\* The reply parses to an object with department, doctor_type and an
\* urgency string of the enumeration.
EnumeratedUrgency(completion) ==
    LET parsed == ResponseData(completion)
    IN  /\ parsed.error = ""
        /\ {"department", "doctor_type", "urgency"} \subseteq DOMAIN parsed.value[1]
        /\ IsStr(parsed.value[1]["urgency"])
        /\ parsed.value[1]["urgency"][2] \in Urgency

C39_EnumeratedUrgencyKept ==
    /\ (last.op = "route" /\ EnumeratedUrgency(last.msg[2]))
        => /\ last.resp.error = ""
           /\ last.resp.value[1].urgency
                = ResponseData(last.msg[2]).value[1]["urgency"][2]
    /\ ( /\ last.op = "stages"
         /\ last.resp.session.classification # None
         /\ EnumeratedUrgency(last.msg.routing) )
        => /\ last.resp.session.routing # None
           /\ last.resp.session.routing[1].urgency
                = ResponseData(last.msg.routing).value[1]["urgency"][2]

\* A routing reply with urgency Standard for a RED classification has been
\* routed with urgency Standard, where the table gives Immediate.
C39_Witness ==
    /\ last.op = "route"
    /\ last.msg[1] = "RED"
    /\ EnumeratedUrgency(last.msg[2])
    /\ last.resp.error = ""
    /\ last.resp.value[1].urgency = "Standard"
    /\ UrgencyTable(last.msg[1]) = "Immediate"

(***************************************************************************)
(* C40: if the routing output object has no urgency field, the routing     *)
(* stage fails with a KeyError and returns no routing; in a run of the     *)
(* three stages no routing is attached, no result is built and the reply   *)
(* is a 500.                                                               *)
(***************************************************************************)
\* The reply parses to an object without an urgency field.
NoUrgencyField(completion) ==
    LET parsed == ResponseData(completion)
    IN  parsed.error = "" /\ "urgency" \notin DOMAIN parsed.value[1]

C40_MissingUrgencyFails ==
    /\ (last.op = "route" /\ NoUrgencyField(last.msg[2]))
        => last.resp = Err("KeyError")
    /\ ( /\ last.op = "stages"
         /\ last.resp.session.classification # None
         /\ NoUrgencyField(last.msg.routing) )
        => /\ last.resp.session.routing = None
           /\ last.resp.result = None
           /\ last.resp.resp = HTTPException(500, "KeyError")

\* A run whose routing reply has department and doctor_type but no urgency
\* has ended in a 500 after the classification was attached.
C40_Witness ==
    /\ last.op = "stages"
    /\ last.resp.session.classification # None
    /\ NoUrgencyField(last.msg.routing)
    /\ {"department", "doctor_type"}
          \subseteq DOMAIN ResponseData(last.msg.routing).value[1]
    /\ last.resp.result = None
    /\ last.resp.resp.status = 500

C35_OldSessionsSwept ==
    \A sid \in 1 .. MaxSessions :
        (sid \in DOMAIN sessions /\ Expired(sessions[sid]))
            ~> (sid \notin DOMAIN sessions)

\* No step, of a request or of time, takes a session out of the registry:
\* the expired session stays whatever requests follow.
SessionsNeverRemoved ==
    [][\A sid \in DOMAIN sessions : sid \in DOMAIN sessions']_vars
====
